---- MODULE Spec2Model ----
(***************************************************************************)
(* Bubblebee backend: the recurring-booking generation job, the booking    *)
(* status update route, the invoice / payment reconciliation routes and    *)
(* the scheduler with its reminder and overdue-notice jobs, modelled as    *)
(* one state machine over the rows of the SQLite store.                    *)
(*                                                                         *)
(* Dates are day numbers: day 1 is 2023-01-01 (UTC).  The process runs     *)
(* with TZ=UTC, so Date#setDate / Date#setMonth (local time) and           *)
(* Date#toISOString / SQLite date('now') (UTC) name the same calendar day. *)
(* Money is in integer cents, except in the ledger, whose amounts are the   *)
(* binary64 numbers of the JavaScript routes.                              *)
(***************************************************************************)
EXTENDS Integers, Sequences, FiniteSets

VARIABLES
    today,        \* the calendar day of the wall clock (date('now'))
    templates,    \* recurring_templates rows, in rowid order
    bookings,     \* bookings rows, in insertion order
    gen,          \* the generation run in flight: position, cursor, queue
    run,          \* what the last generation run did (history)
    invoices,     \* invoices rows, in insertion order
    payments,     \* payments rows, in insertion order
    totalSpent,   \* customers.total_spent, per customer
    sessions,     \* the processor's checkout sessions, by creation order
    requests,     \* how many staff update requests were handled (history)
    dueJobs,      \* the scheduled jobs whose tick has come and whose callback waits
    mailRuns,     \* the runs of the mailing jobs, by start order (with history)
    communications, \* communications rows
    ledger        \* invoices rows with their amounts as the numbers JavaScript holds

genSide == <<templates, gen, run>>
paySide == <<invoices, payments, totalSpent, sessions>>
bookSide == <<requests>>
jobSide == <<dueJobs, mailRuns, communications>>
numSide == <<ledger>>

-----------------------------------------------------------------------------
\* Bounds of the model.

\* how many days the clock may move past its start
MaxAdvance == 7
\* how many recurring_templates rows the store holds
NumTemplates == 2
\* how many bookings rows the generation job may have written
MaxBookings == 6
\* how many bookings rows the public booking form may have written
MaxPublicBookings == 1
\* how many PUT /api/bookings/:id requests the staff may send
MaxUpdates == 3
\* how many invoices rows the store may hold
MaxInvoices == 1
\* how many payments rows the store may hold
MaxPayments == 2
\* how many checkout sessions the processor may hold
MaxSessions == 1
\* how many runs of the mail jobs are followed
MaxRuns == 2
\* how many payments one invoice of the ledger may receive
MaxInstalments == 3
\* how many bookings and invoices the database file holds at start
NumStored == 2

-----------------------------------------------------------------------------
\* Calendar (what the JavaScript Date object computes).

\* next_date IS NULL
NULL == 0

IsLeap(y) == (y % 4 = 0 /\ y % 100 # 0) \/ y % 400 = 0

DaysInMonth(y, m) ==
    IF m = 2 THEN (IF IsLeap(y) THEN 29 ELSE 28)
    ELSE IF m \in {4, 6, 9, 11} THEN 30 ELSE 31

DaysInYear(y) == IF IsLeap(y) THEN 366 ELSE 365

RECURSIVE DaysBeforeYear(_)
DaysBeforeYear(y) ==
    IF y <= 2023 THEN 0 ELSE DaysBeforeYear(y - 1) + DaysInYear(y - 1)

RECURSIVE DaysBeforeMonth(_, _)
DaysBeforeMonth(y, m) ==
    IF m <= 1 THEN 0 ELSE DaysBeforeMonth(y, m - 1) + DaysInMonth(y, m - 1)

\* Date.UTC(y, m, d) as a day number; d may run past the end of the month,
\* the extra days then carry into the following months as in MakeDay.
DayNumber(y, m, d) == DaysBeforeYear(y) + DaysBeforeMonth(y, m) + d

RECURSIVE YearOf(_, _)
YearOf(n, y) == IF n <= DaysInYear(y) THEN y ELSE YearOf(n - DaysInYear(y), y + 1)

RECURSIVE MonthOf(_, _, _)
MonthOf(n, y, m) ==
    IF n <= DaysInMonth(y, m) THEN m ELSE MonthOf(n - DaysInMonth(y, m), y, m + 1)

\* getFullYear / getMonth (1-based here) / getDate of a day number
Year(n) == YearOf(n, 2023)
Month(n) == MonthOf(n - DaysBeforeYear(Year(n)), Year(n), 1)
DayOfMonth(n) == n - DayNumber(Year(n), Month(n), 0)

\* nextDate.setDate(nextDate.getDate() + k)
SetDatePlus(n, k) == DayNumber(Year(n), Month(n), DayOfMonth(n) + k)

\* nextDate.setMonth(nextDate.getMonth() + 1): the month is replaced and the
\* day of month is kept as it is, so a day the target month lacks overflows
\* into the month after it.
SetMonthPlusOne(n) ==
    LET y == Year(n)
        m == Month(n)
        ty == IF m = 12 THEN y + 1 ELSE y
        tm == IF m = 12 THEN 1 ELSE m + 1
    IN  DayNumber(ty, tm, DayOfMonth(n))

Jan20_2023 == DayNumber(2023, 1, 20)
Jan20_2024 == DayNumber(2024, 1, 20)

\* the days the clock may start at
StartDays == {Jan20_2023, Jan20_2024}

-----------------------------------------------------------------------------
\* Recurring templates.

\* date('now', '+14 days') and endDate.setDate(endDate.getDate() + 14)
HorizonDays == 14

\* the frequency column has no CHECK in the schema that init.js creates
Frequencies == {"weekly", "biweekly", "monthly", "daily"}

\* switch (template.frequency): no default branch
AdvanceOccurrence(d, frequency) ==
    CASE frequency = "weekly"   -> SetDatePlus(d, 7)
      [] frequency = "biweekly" -> SetDatePlus(d, 14)
      [] frequency = "monthly"  -> SetMonthPlusOne(d)
      [] OTHER                  -> d

\* next_date values a stored template may carry when the server starts
InitialNextDates(start) == {NULL, start - 10, start + 11}

\* parses = FALSE: the next_date text is no date ('2023-00-10'), new Date(text)
\* is an Invalid Date
\* (one deactivated row stands for all of them: they are never selected;
\* one row with an unparseable date stands for all of them: its frequency
\* is never looked at, the loop condition being false at once)
TemplateRows(start) ==
    {t \in [frequency : Frequencies,
            nextDate  : InitialNextDates(start),
            parses    : BOOLEAN,
            isActive  : BOOLEAN] :
        /\ ~ t.parses => t.nextDate = start - 10 /\ t.frequency = "weekly"
        /\ ~ t.isActive => t.frequency = "weekly" /\ t.nextDate = NULL /\ t.parses}

TemplateIds == 1..NumTemplates

\* WHERE is_active = 1 AND (next_date IS NULL OR next_date <= date('now', '+14 days'))
\* A next_date text that is no date ('2023-00-10') sorts below every date of
\* its year, so the text comparison selects it.
Selected(t, day) ==
    /\ t.isActive
    /\ \/ t.nextDate = NULL
       \/ ~ t.parses
       \/ t.nextDate <= day + HorizonDays

RECURSIVE SelectFrom(_, _, _)
SelectFrom(tpls, i, day) ==
    IF i > Len(tpls) THEN <<>>
    ELSE (IF Selected(tpls[i], day) THEN <<i>> ELSE <<>>) \o SelectFrom(tpls, i + 1, day)

\* db.query(...): the selected rows in rowid order
SelectTemplates(tpls, day) == SelectFrom(tpls, 1, day)

\* template.nextDate ? new Date(template.nextDate) : new Date()
StartCursor(t, day) == IF t.nextDate = NULL THEN day ELSE t.nextDate

\* the row db.insert('bookings', {...}) writes for an occurrence
RecurringBooking(tid, d) ==
    [recurringId |-> tid, scheduledDate |-> d, status |-> "pending",
     confirmedAt |-> NULL, startedAt |-> NULL, completedAt |-> NULL,
     cancelledAt |-> NULL, cancellationReason |-> "null"]

\* the rows the public booking form wrote (recurring_id IS NULL)
PublicCount(bks) == Cardinality({i \in 1..Len(bks) : bks[i].recurringId = NULL})

\* (a run without the per-date existence check)
NoExistenceCheck(bks, tid, d) == FALSE

\* SELECT id FROM bookings WHERE recurring_id = ? AND scheduled_date = ?
BookingExists(bks, tid, d) ==
    \E i \in 1..Len(bks) : bks[i].recurringId = tid /\ bks[i].scheduledDate = d

\* (a run that writes the day of the run instead of the cursor)
PersistedToday(cursor, day) == day

\* UPDATE recurring_templates SET next_date = ? with the loop's final cursor
PersistedNextDate(cursor, day) == cursor

\* no run has been made on this day yet
NoRun == [status |-> "none", day |-> NULL, created |-> 0, selected |-> {},
          failed |-> {}, start |-> [t \in TemplateIds |-> NULL], repeat |-> FALSE,
          made |-> [t \in TemplateIds |-> 0]]

GenIdle == [pc |-> "idle", queue |-> <<>>, cursor |-> NULL, endDate |-> NULL]

\* the for loop reaches the template at the head of queue q (or the run ends)
EnterTemplate(q, day) ==
    IF q = <<>> THEN GenIdle
    ELSE [pc |-> "loop", queue |-> q,
          cursor |-> StartCursor(templates[Head(q)], day),
          endDate |-> day + HorizonDays]

SeqToSet(q) == {q[i] : i \in 1..Len(q)}

\* generateRecurringBookings() is entered: the templates are queried
GenerateStart ==
    /\ gen.pc = "idle"
    /\ LET q == SelectTemplates(templates, today)
       IN  /\ gen' = EnterTemplate(q, today)
           /\ run' = [status   |-> IF q = <<>> THEN "completed" ELSE "running",
                      day      |-> today,
                      created  |-> 0,
                      selected |-> SeqToSet(q),
                      failed   |-> {},
                      start    |-> [t \in TemplateIds |->
                                      IF t \in SeqToSet(q)
                                      THEN StartCursor(templates[t], today) ELSE NULL],
                      repeat   |-> run.status = "completed" /\ run.day = today,
                      made     |-> [t \in TemplateIds |-> 0]]
    /\ UNCHANGED <<today, templates, bookings, paySide, bookSide, jobSide, numSide>>

\* the cron job '0 1 * * *'
CronRecurring == GenerateStart

\* triggerRecurring(), the manual trigger
TriggerRecurring == GenerateStart

\* one iteration of while (nextDate <= endDate); an Invalid Date compares false
GenerateIterate ==
    /\ gen.pc = "loop"
    /\ LET tid == Head(gen.queue)
           t == templates[tid]
           existing == BookingExists(bookings, tid, gen.cursor)
       IN  /\ t.parses
           /\ gen.cursor <= gen.endDate
           /\ existing \/ Len(bookings) - PublicCount(bookings) < MaxBookings
           /\ bookings' = IF existing THEN bookings
                          ELSE Append(bookings, RecurringBooking(tid, gen.cursor))
           /\ run' = IF existing THEN run
                     ELSE [run EXCEPT !.created = @ + 1, !.made[tid] = @ + 1]
           /\ gen' = [gen EXCEPT !.cursor = AdvanceOccurrence(gen.cursor, t.frequency)]
    /\ UNCHANGED <<today, templates, paySide, bookSide, jobSide, numSide>>

\* (a run whose first failing template ends the whole run)
AbortRun(tid) ==
    /\ templates' = templates
    /\ gen' = GenIdle
    /\ run' = [run EXCEPT !.failed = @ \cup {tid}, !.status = "completed"]

\* the template's catch block: the error is logged, the for loop goes on
TemplateFailed(tid) ==
    /\ templates' = templates
    /\ LET rest == Tail(gen.queue)
       IN  /\ gen' = EnterTemplate(rest, today)
           /\ run' = [run EXCEPT !.failed = @ \cup {tid},
                                 !.status = IF rest = <<>> THEN "completed" ELSE @]

\* the loop is left: next_date is written (toISOString() of an Invalid Date
\* throws a RangeError), and the for loop moves to the next template
GenerateFinishTemplate ==
    /\ gen.pc = "loop"
    /\ LET tid == Head(gen.queue)
           t == templates[tid]
           rest == Tail(gen.queue)
       IN  /\ ~ t.parses \/ gen.cursor > gen.endDate
           /\ IF t.parses
              THEN /\ templates' = [templates EXCEPT
                                      ![tid].nextDate = PersistedNextDate(gen.cursor, today)]
                   /\ gen' = EnterTemplate(rest, today)
                   /\ run' = [run EXCEPT
                                !.status = IF rest = <<>> THEN "completed" ELSE @]
              ELSE TemplateFailed(tid)
    /\ UNCHANGED <<today, bookings, paySide, bookSide, jobSide, numSide>>

\* the process is killed while a run is in flight and restarted: every write
\* already made is on disk (db.run saves after each statement)
Crash ==
    /\ gen.pc = "loop"
    /\ gen' = GenIdle
    /\ run' = [run EXCEPT !.status = "crashed"]
    /\ UNCHANGED <<today, templates, bookings, paySide, bookSide, jobSide, numSide>>

\* the wall clock reaches a later day (no run is in flight: a run is one
\* synchronous stretch of JavaScript)
AdvanceDay(k) ==
    /\ gen.pc = "idle"
    /\ \E s \in StartDays : s <= today /\ today + k <= s + MaxAdvance
    /\ today' = today + k
    /\ run' = NoRun
    /\ UNCHANGED <<templates, bookings, gen, paySide, bookSide, jobSide, numSide>>

ClockSteps == {7}

-----------------------------------------------------------------------------
\* Bookings: the public booking form and the staff update route.

Customers == {"c1", "c2"}

BookingStatuses ==
    {"pending", "confirmed", "in_progress", "completed", "cancelled", "no_show"}

\* POST /api/bookings: the row db.insert('bookings', {...}) writes
CreateBooking(d) ==
    /\ gen.pc = "idle"
    /\ PublicCount(bookings) < MaxPublicBookings
    /\ bookings' = Append(bookings,
                          [recurringId |-> NULL, scheduledDate |-> d,
                           status |-> "pending",
                           confirmedAt |-> NULL, startedAt |-> NULL,
                           completedAt |-> NULL, cancelledAt |-> NULL,
                           cancellationReason |-> "null"])
    /\ UNCHANGED <<today, genSide, paySide, bookSide, jobSide, numSide>>

\* the request bodies of PUT /api/bookings/:id: a field is "absent" when the
\* body does not carry it; cancellationReason may also be JSON null
\* (cancellationReason is read only when status is "cancelled")
UpdateBodies(day) ==
    {u \in [status             : BookingStatuses \cup {"absent"},
            scheduledDate      : {NULL, day + 7},           \* NULL: absent
            cancellationReason : {"absent", "null", "given"}] :
        u.status # "cancelled" => u.cancellationReason = "absent"}

\* the row after db.update('bookings', updateData, 'id = ?', [id])
UpdatedBooking(b, u, day) ==
    [b EXCEPT
       !.status = IF u.status # "absent" THEN u.status ELSE @,
       !.scheduledDate = IF u.scheduledDate # NULL THEN u.scheduledDate ELSE @,
       !.confirmedAt = IF u.status = "confirmed" /\ b.confirmedAt = NULL THEN day ELSE @,
       !.startedAt = IF u.status = "in_progress" /\ b.startedAt = NULL THEN day ELSE @,
       !.completedAt = IF u.status = "completed" /\ b.completedAt = NULL THEN day ELSE @,
       !.cancelledAt = IF u.status = "cancelled" THEN day ELSE @,
       !.cancellationReason = IF u.status = "cancelled" THEN u.cancellationReason ELSE @]

\* updateData.cancellation_reason = undefined: binding undefined makes the
\* statement throw, the route answers 500 and the row is untouched
UpdateThrows(u) == u.status = "cancelled" /\ u.cancellationReason = "absent"

\* PUT /api/bookings/:id
UpdateBooking(i, u) ==
    /\ gen.pc = "idle"
    /\ i \in 1..Len(bookings)
    /\ requests < MaxUpdates
    /\ requests' = requests + 1
    /\ bookings' = IF UpdateThrows(u) THEN bookings
                   ELSE [bookings EXCEPT ![i] = UpdatedBooking(@, u, today)]
    /\ UNCHANGED <<today, genSide, paySide, jobSide, numSide>>

-----------------------------------------------------------------------------
\* Invoices and payments (amounts in cents).

\* the totals the line items of a new invoice may add up to
InvoiceTotals == {2}

\* the amount field of a POST /api/payments body
PaymentAmounts == {0 - 1, 1, 3}

\* POST /api/invoices: the row db.insert('invoices', {...}) writes
\* (amount_paid DEFAULT 0, paid_date NULL, updated_at DEFAULT now)
CreateInvoice(c, total, due) ==
    /\ Len(invoices) < MaxInvoices
    /\ invoices' = Append(invoices,
                          [customer |-> c, total |-> total, amountPaid |-> 0,
                           amountDue |-> total, status |-> "draft",
                           dueDate |-> due, paidDate |-> NULL,
                           updatedAt |-> today])
    /\ UNCHANGED <<today, bookings, genSide, bookSide, payments, totalSpent, sessions, jobSide, numSide>>

\* POST /api/invoices/:id/send, the mail having been handed over:
\* UPDATE invoices SET status = 'sent', sent_at = datetime("now") WHERE id = ?
SendInvoice(i) ==
    /\ i \in 1..Len(invoices)
    /\ invoices' = [invoices EXCEPT ![i].status = "sent"]
    /\ UNCHANGED <<today, bookings, genSide, bookSide, payments, totalSpent, sessions, jobSide, numSide>>

Max(a, b) == IF a >= b THEN a ELSE b

\* the number of payment applications invoice i has had: the version of its
\* amount_paid / amount_due that a SELECT of the invoice row reads
ApplicationsTo(pays, i) == Cardinality({k \in 1..Len(pays) : pays[k].invoice = i})

\* newAmountDue = invoice.total - newAmountPaid, stored as Math.max(0, newAmountDue)
StoredAmountDue(inv, amount) == Max(0, inv.total - (inv.amountPaid + amount))

\* the invoice row after the UPDATE of POST /api/payments
PaidInvoice(inv, amount, day) ==
    [inv EXCEPT
       !.amountPaid = inv.amountPaid + amount,
       !.amountDue = StoredAmountDue(inv, amount),
       !.status = IF inv.total - (inv.amountPaid + amount) <= 0 THEN "paid" ELSE "partial",
       !.paidDate = day]

\* POST /api/payments: the route checks that the invoice exists and nothing
\* about the amount; it inserts the payment, updates the invoice and adds the
\* amount to customers.total_spent (one synchronous stretch of JavaScript:
\* no await stands between the SELECT of the invoice and the last UPDATE, so
\* no other request handler runs in between).  basis records which version
\* of the invoice's balance the payment was computed from.
RecordPayment(i, amount) ==
    /\ i \in 1..Len(invoices)
    /\ Len(payments) < MaxPayments
    /\ payments' = Append(payments,
                          [invoice |-> i, customer |-> invoices[i].customer,
                           amount |-> amount, method |-> "cash",
                           stripePaymentId |-> NULL, status |-> "completed",
                           basis |-> ApplicationsTo(payments, i)])
    /\ invoices' = [invoices EXCEPT ![i] = PaidInvoice(@, amount, today)]
    /\ totalSpent' = [totalSpent EXCEPT ![invoices[i].customer] = @ + amount]
    /\ UNCHANGED <<today, bookings, genSide, bookSide, sessions, jobSide, numSide>>

\* POST /api/payments/checkout: createCheckoutSession(invoice, customer) with
\* unit_amount = Math.round(invoice.amountDue * 100); the processor refuses a
\* session without a positive amount
CreateCheckout(i) ==
    /\ i \in 1..Len(invoices)
    /\ invoices[i].amountDue > 0
    /\ Len(sessions) < MaxSessions
    /\ sessions' = Append(sessions,
                          [invoice |-> i, amountTotal |-> invoices[i].amountDue,
                           paymentIntent |-> Len(sessions) + 1,
                           basis |-> ApplicationsTo(payments, i)])
    /\ UNCHANGED <<today, bookings, genSide, bookSide, invoices, payments, totalSpent, jobSide, numSide>>

WebhookEvents == {"checkout.session.completed", "payment_intent.created"}

\* POST /api/webhooks/stripe for the event of session s (the processor may
\* deliver an event more than once; the handler looks up no earlier payment).
\* The amount is the session's amount_total, that is the amount_due read when
\* the session was created; the handler's only await precedes its SELECT.
StripeWebhook(s, type) ==
    /\ s \in 1..Len(sessions)
    /\ IF type = "checkout.session.completed"
       THEN LET i == sessions[s].invoice
            IN  /\ Len(payments) < MaxPayments
                /\ payments' = Append(payments,
                                      [invoice |-> i, customer |-> invoices[i].customer,
                                       amount |-> sessions[s].amountTotal,
                                       method |-> "card",
                                       stripePaymentId |-> sessions[s].paymentIntent,
                                       status |-> "completed",
                                       basis |-> sessions[s].basis])
                /\ invoices' = [invoices EXCEPT
                                  ![i].amountPaid = invoices[i].total,
                                  ![i].amountDue = 0,
                                  ![i].status = "paid",
                                  ![i].paidDate = today]
       ELSE UNCHANGED <<invoices, payments, numSide>>
    /\ UNCHANGED <<today, bookings, genSide, bookSide, totalSpent, sessions, jobSide, numSide>>

\* (a sweep that forgets the amount_due > 0 condition)
OverdueIgnoringAmount(inv, day) == inv.status = "sent" /\ inv.dueDate < day

\* WHERE status = 'sent' AND due_date < date('now') AND amount_due > 0
IsOverdue(inv, day) == inv.status = "sent" /\ inv.dueDate < day /\ inv.amountDue > 0

\* checkOverdueInvoices: UPDATE invoices SET status = 'overdue', updated_at = now
CheckOverdueInvoices ==
    /\ invoices' = [i \in 1..Len(invoices) |->
                      IF IsOverdue(invoices[i], today)
                      THEN [invoices[i] EXCEPT !.status = "overdue", !.updatedAt = today]
                      ELSE invoices[i]]
    /\ UNCHANGED <<today, bookings, genSide, bookSide, payments, totalSpent, sessions, jobSide, numSide>>

-----------------------------------------------------------------------------
\* The scheduler's mail jobs (sendBookingReminders, checkOverdueInvoices).
\* A run of a job is a record: selected is the result of its query, queue the
\* rows the for loop has still to handle, tried the rows whose send was
\* awaited, moved the rows the job's UPDATE changed.  Each await of the mailer
\* is a point where other callbacks of the process may run.

\* how email.sendEmail settles: resolved with {sent: true}, resolved with
\* {sent: false} (mail not configured, or a failure the service reports by
\* its result), or rejected (services/email.js rethrows a failed send)
SendOutcomes == {"sent", "notSent", "threw"}

RECURSIVE ReminderRows(_, _, _)
ReminderRows(bks, i, day) ==
    IF i > Len(bks) THEN <<>>
    ELSE (IF bks[i].scheduledDate = day + 1 /\ bks[i].status \in {"pending", "confirmed"}
          THEN <<i>> ELSE <<>>) \o ReminderRows(bks, i + 1, day)

\* WHERE b.scheduled_date = tomorrow AND b.status IN ('pending', 'confirmed')
RemindersDue(bks, day) == ReminderRows(bks, 1, day)

\* the invoices after the UPDATE of checkOverdueInvoices
SweptInvoices(invs, day) ==
    [i \in 1..Len(invs) |->
        IF IsOverdue(invs[i], day)
        THEN [invs[i] EXCEPT !.status = "overdue", !.updatedAt = day]
        ELSE invs[i]]

RECURSIVE NoticeRows(_, _, _)
NoticeRows(invs, i, day) ==
    IF i > Len(invs) THEN <<>>
    ELSE (IF invs[i].status = "overdue" /\ invs[i].updatedAt = day
          THEN <<i>> ELSE <<>>) \o NoticeRows(invs, i + 1, day)

\* if (result.changes > 0): WHERE i.status = 'overdue' AND
\* date(i.updated_at) = date('now'), read after the UPDATE
NoticesDue(invs, day) ==
    IF \E i \in 1..Len(invs) : IsOverdue(invs[i], day)
    THEN NoticeRows(SweptInvoices(invs, day), 1, day)
    ELSE <<>>

\* a run that has just made its query
StartedRun(job, rows, changed) ==
    [job |-> job, selected |-> rows, queue |-> rows, tried |-> {},
     moved |-> changed, pc |-> IF rows = <<>> THEN "done" ELSE "sending"]

InFlight(r) == r.pc = "sending"

\* the run after the iteration for the head of its queue
Continued(r) ==
    [r EXCEPT !.queue = Tail(@), !.tried = @ \cup {Head(r.queue)},
              !.pc = IF Tail(r.queue) = <<>> THEN "done" ELSE "sending"]

\* (a loop without the inner try: a rejected send ends the run)
AbortOnThrow(r, outcome) ==
    IF outcome = "threw"
    THEN [r EXCEPT !.queue = <<>>, !.tried = @ \cup {Head(r.queue)}, !.pc = "done"]
    ELSE Continued(r)

\* try { await send(...) ... } catch (err) { console.error(...) } inside the
\* for loop: whatever the outcome, the loop goes on with the next row
AfterAttempt(r, outcome) == Continued(r)

\* the runs that are followed: a run whose query returned no row is over at
\* once and leaves nothing behind
Followed(runs, r) == IF r.selected = <<>> THEN runs ELSE Append(runs, r)

\* sendBookingReminders up to its first await
RemindersBegun(runs, bks, day) ==
    Followed(runs, StartedRun("reminders", RemindersDue(bks, day), {}))

\* checkOverdueInvoices up to its first await: the UPDATE, then the query
\* for the notices when the UPDATE changed a row
OverdueBegun(runs, invs, day) ==
    Followed(runs, StartedRun("overdue", NoticesDue(invs, day),
                              {i \in 1..Len(invs) : IsOverdue(invs[i], day)}))

\* sendBookingReminders called by the cron callback '0 10 * * *' or by
\* triggerReminders; start() and the trigger functions keep no record of a
\* run that has not finished
ReminderStart ==
    /\ gen.pc = "idle"
    /\ Len(RemindersBegun(mailRuns, bookings, today)) <= MaxRuns
    /\ mailRuns' = RemindersBegun(mailRuns, bookings, today)
    /\ UNCHANGED <<today, bookings, genSide, paySide, bookSide, dueJobs, communications, numSide>>

\* one iteration of the reminder loop: the awaited sendBookingReminder
\* settles; its result is not looked at; unless it rejected,
\* db.insert('communications', {..., status: 'sent'}) follows
ReminderAttempt(r, outcome) ==
    /\ gen.pc = "idle"
    /\ r \in 1..Len(mailRuns)
    /\ mailRuns[r].job = "reminders"
    /\ InFlight(mailRuns[r])
    /\ communications' =
          IF outcome = "threw" THEN communications
          ELSE communications \cup {[booking |-> Head(mailRuns[r].queue), run |-> r,
                                     status |-> "sent", outcome |-> outcome]}
    /\ mailRuns' = [mailRuns EXCEPT ![r] = AfterAttempt(@, outcome)]
    /\ UNCHANGED <<today, bookings, genSide, paySide, bookSide, dueJobs, numSide>>

\* checkOverdueInvoices called by the cron callback '0 9 * * *'
OverdueStart ==
    /\ gen.pc = "idle"
    /\ Len(OverdueBegun(mailRuns, invoices, today)) <= MaxRuns
    /\ invoices' = SweptInvoices(invoices, today)
    /\ mailRuns' = OverdueBegun(mailRuns, invoices, today)
    /\ UNCHANGED <<today, bookings, genSide, bookSide, payments, totalSpent, sessions,
                   dueJobs, communications, numSide>>

\* one iteration of the notice loop: the awaited sendEmail settles
NoticeAttempt(r, outcome) ==
    /\ gen.pc = "idle"
    /\ r \in 1..Len(mailRuns)
    /\ mailRuns[r].job = "overdue"
    /\ InFlight(mailRuns[r])
    /\ mailRuns' = [mailRuns EXCEPT ![r] = AfterAttempt(@, outcome)]
    /\ UNCHANGED <<today, bookings, genSide, paySide, bookSide, dueJobs, communications, numSide>>

-----------------------------------------------------------------------------
\* The scheduler (start): five cron jobs in one Node.js process.  A callback
\* starts only when the JavaScript that is running has returned to the event
\* loop; generateRecurringBookings has no await inside its loops.

\* the jobs besides 'Generate recurring bookings'
OtherJobs == {"reminders", "overdue", "cleanup", "inventory"}

\* the minute of job j's cron expression is reached: its callback is due
Tick(j) ==
    /\ j \notin dueJobs
    /\ dueJobs' = dueJobs \cup {j}
    /\ UNCHANGED <<today, bookings, genSide, paySide, bookSide, mailRuns, communications, numSide>>

\* the callback of job j is called and runs up to its first await
\* (cleanExpiredSessions and checkLowInventory write nothing that is modelled)
RunJob(j) ==
    /\ j \in dueJobs
    /\ gen.pc = "idle"
    /\ dueJobs' = dueJobs \ {j}
    /\ mailRuns' = CASE j = "reminders" -> RemindersBegun(mailRuns, bookings, today)
                     [] j = "overdue"   -> OverdueBegun(mailRuns, invoices, today)
                     [] OTHER           -> mailRuns
    /\ Len(mailRuns') <= MaxRuns
    /\ invoices' = IF j = "overdue" THEN SweptInvoices(invoices, today) ELSE invoices
    /\ UNCHANGED <<today, bookings, genSide, payments, totalSpent, sessions, bookSide,
                   communications, numSide>>

-----------------------------------------------------------------------------
\* Money as the routes compute it.  The amounts of a request body and the
\* REAL columns of the invoice row are JavaScript numbers: IEEE 754 binary64.
\* A number is kept here as a sign and an exact count of units of 2^-Scale,
\* the count written in three digits h, m, l of base LimbBase (every
\* binary64 value from 0.01 up to 8 is such a count, and so are the sums and
\* differences of two of them).

\* significant bits of a binary64 number
Precision == 53
\* 0.01 lies in [2^-7, 2^-6): its last significant bit is worth 2^-59
Scale == 60
\* Scale = 3 * 20: a count below 8 * 2^Scale has three digits of base 2^21
LimbBase == 2097152

\* the digits after the carries (or borrows) are passed upwards
Carried(h, m, l) ==
    LET m1 == m + (l \div LimbBase)
    IN  [h |-> h + (m1 \div LimbBase), m |-> m1 % LimbBase, l |-> l % LimbBase]

\* how many binary digits the natural number n < 2^22 has
BitLength(n) == Cardinality({k \in 0..21 : 2^k <= n})

\* how many binary digits the count has
CountLength(x) ==
    IF x.h > 0 THEN 42 + BitLength(x.h)
    ELSE IF x.m > 0 THEN 21 + BitLength(x.m)
    ELSE BitLength(x.l)

\* round to nearest, ties to even, at Precision significant bits; above says
\* that the exact value lies above the count (by less than one unit)
RoundNearestEven(x, above) ==
    IF CountLength(x) <= Precision THEN x
    ELSE LET unit == 2^(CountLength(x) - Precision)
             low == x.l % unit
             odd == (x.l \div unit) % 2 = 1
             up == \/ 2 * low > unit
                   \/ 2 * low = unit /\ (above \/ odd)
         IN  Carried(x.h, x.m, x.l - low + (IF up THEN unit ELSE 0))

Zero == [neg |-> FALSE, h |-> 0, m |-> 0, l |-> 0]

IsZero(x) == x.h = 0 /\ x.m = 0 /\ x.l = 0

Signed(neg, x) == [neg |-> neg, h |-> x.h, m |-> x.m, l |-> x.l]

\* the number the decimal text c/100 of a JSON body parses to (0 < c < 800):
\* the binary64 value nearest to it.  c * 2^Scale is divided by 100 digit by
\* digit, the first digit being c * 2^(Scale - 42)
FromCents(c) ==
    LET top == c * 2^(Scale - 42)
        r1 == top % 100
        r2 == (r1 * LimbBase) % 100
        q == [h |-> top \div 100, m |-> (r1 * LimbBase) \div 100,
              l |-> (r2 * LimbBase) \div 100]
    IN  Signed(FALSE, RoundNearestEven(q, (r2 * LimbBase) % 100 # 0))

\* |x| < |y|
LessMagnitude(x, y) ==
    \/ x.h < y.h
    \/ x.h = y.h /\ x.m < y.m
    \/ x.h = y.h /\ x.m = y.m /\ x.l < y.l

\* x + y in binary64: the exact sum, rounded
NumberAdd(x, y) ==
    IF x.neg = y.neg
    THEN Signed(x.neg, RoundNearestEven(Carried(x.h + y.h, x.m + y.m, x.l + y.l), FALSE))
    ELSE IF LessMagnitude(x, y)
    THEN Signed(y.neg, RoundNearestEven(Carried(y.h - x.h, y.m - x.m, y.l - x.l), FALSE))
    ELSE IF LessMagnitude(y, x)
    THEN Signed(x.neg, RoundNearestEven(Carried(x.h - y.h, x.m - y.m, x.l - y.l), FALSE))
    ELSE Zero

\* x - y in binary64
NumberSub(x, y) == NumberAdd(x, IF IsZero(y) THEN y ELSE Signed(~ y.neg, y))

\* x <= 0
NotPositive(x) == x.neg \/ IsZero(x)

\* Math.max(0, x)
MathMax0(x) == IF x.neg THEN Zero ELSE x

\* the prices and the payment amounts of the request bodies, in cents
PriceCents == {30, 80, 110}
InstalmentCents == {10, 20, 30, 40, 70}

\* POST /api/invoices with one line item of quantity 1 and tax rate 0:
\* total = 0 + 1 * unitPrice + 0; amount_due = total, amount_paid DEFAULT 0.
\* (cents and paidCents keep the exact amounts in cents beside the row)
CreatePricedInvoice(c) ==
    /\ Len(ledger) < MaxInvoices
    /\ ledger' = Append(ledger,
                        [total |-> FromCents(c), amountPaid |-> Zero,
                         amountDue |-> FromCents(c), status |-> "draft",
                         cents |-> c, paidCents |-> 0, instalments |-> 0])
    /\ UNCHANGED <<today, bookings, genSide, paySide, bookSide, jobSide>>

\* the invoice row after the UPDATE of POST /api/payments, the numbers
\* being binary64:
\*   newAmountPaid = (invoice.amountPaid || 0) + amount
\*   newAmountDue = invoice.total - newAmountPaid
\*   newStatus = newAmountDue <= 0 ? 'paid' : 'partial'
PaidRow(row, c) ==
    LET amount == FromCents(c)
        newAmountPaid == NumberAdd(row.amountPaid, amount)
        newAmountDue == NumberSub(row.total, newAmountPaid)
    IN  [row EXCEPT
           !.amountPaid = newAmountPaid,
           !.amountDue = MathMax0(newAmountDue),
           !.status = IF NotPositive(newAmountDue) THEN "paid" ELSE "partial",
           !.paidCents = @ + c,
           !.instalments = @ + 1]

\* POST /api/payments with an amount of c cents
RecordInstalment(i, c) ==
    /\ i \in 1..Len(ledger)
    /\ ledger[i].instalments < MaxInstalments
    /\ ledger' = [ledger EXCEPT ![i] = PaidRow(@, c)]
    /\ UNCHANGED <<today, bookings, genSide, paySide, bookSide, jobSide>>

-----------------------------------------------------------------------------
vars == <<today, templates, bookings, gen, run, invoices, payments, totalSpent, sessions,
          requests, dueJobs, mailRuns, communications, ledger>>

\* the store after init.js, with the recurring templates the business keeps
Init ==
    /\ today \in StartDays
    /\ templates \in [TemplateIds -> TemplateRows(today)]
    /\ bookings = <<>>
    /\ gen = GenIdle
    /\ run = NoRun
    /\ invoices = <<>>
    /\ payments = <<>>
    /\ totalSpent = [c \in Customers |-> 0]
    /\ sessions = <<>>
    /\ requests = 0
    /\ dueJobs = {}
    /\ mailRuns = <<>>
    /\ communications = {}
    /\ ledger = <<>>

NextGen ==
    \/ CronRecurring
    \/ TriggerRecurring
    \/ GenerateIterate
    \/ GenerateFinishTemplate
    \/ Crash
    \/ \E k \in ClockSteps : AdvanceDay(k)

SpecGen == Init /\ [][NextGen]_vars

\* the booking routes alone, with no recurring template active
InitBooking ==
    /\ Init
    /\ today = Jan20_2023
    /\ \A t \in TemplateIds : ~ templates[t].isActive

NextBooking ==
    \/ CreateBooking(today + 7)
    \/ \E i \in 1..Len(bookings) : \E u \in UpdateBodies(today) : UpdateBooking(i, u)
    \/ \E k \in ClockSteps : AdvanceDay(k)

\* the invoice and payment routes and the overdue sweep
NextPay ==
    \/ \E c \in Customers : \E total \in InvoiceTotals : \E due \in {today - 1, today + 3} :
          CreateInvoice(c, total, due)
    \/ \E i \in 1..Len(invoices) : SendInvoice(i)
    \/ \E i \in 1..Len(invoices) : \E amount \in PaymentAmounts : RecordPayment(i, amount)
    \/ \E i \in 1..Len(invoices) : CreateCheckout(i)
    \/ \E s \in 1..Len(sessions) : \E type \in WebhookEvents : StripeWebhook(s, type)
    \/ CheckOverdueInvoices

SpecPay == InitBooking /\ [][NextPay]_vars

\* the invoice statuses that end an invoice's life; no route writes them
TerminalStatuses == {"cancelled", "refunded"}

\* invoice rows in a terminal state, as the database file loaded at start
\* may hold them (cancelled before any payment, or refunded after payment)
StoredInvoices(day) ==
    {r \in [customer : Customers, total : InvoiceTotals, amountPaid : {0, 2},
            amountDue : {0, 2}, status : TerminalStatuses, dueDate : {day - 1},
            paidDate : {NULL}, updatedAt : {day}] :
       /\ r.amountPaid + r.amountDue = r.total
       /\ r.status = "cancelled" => r.amountPaid = 0}

\* the server starts on a database file that holds one such invoice
InitStored ==
    /\ today = Jan20_2023
    /\ templates \in [TemplateIds -> TemplateRows(today)]
    /\ \A t \in TemplateIds : ~ templates[t].isActive
    /\ bookings = <<>>
    /\ gen = GenIdle
    /\ run = NoRun
    /\ invoices \in {<<r>> : r \in StoredInvoices(today)}
    /\ payments = <<>>
    /\ totalSpent = [c \in Customers |-> 0]
    /\ sessions = <<>>
    /\ requests = 0
    /\ dueJobs = {}
    /\ mailRuns = <<>>
    /\ communications = {}
    /\ ledger = <<>>

\* the operations on an invoice that exists
NextStored ==
    \/ \E i \in 1..Len(invoices) : SendInvoice(i)
    \/ \E i \in 1..Len(invoices) : \E amount \in PaymentAmounts : RecordPayment(i, amount)
    \/ \E i \in 1..Len(invoices) : CreateCheckout(i)
    \/ \E s \in 1..Len(sessions) : \E type \in WebhookEvents : StripeWebhook(s, type)
    \/ CheckOverdueInvoices

SpecStored == InitStored /\ [][NextStored]_vars

SpecBooking == InitBooking /\ [][NextBooking]_vars

\* booking rows for tomorrow as the database file loaded at start may hold
\* them: awaiting the visit, or cancelled
StoredBookings(day) ==
    {[recurringId |-> NULL, scheduledDate |-> day + 1, status |-> "pending",
      confirmedAt |-> NULL, startedAt |-> NULL, completedAt |-> NULL,
      cancelledAt |-> NULL, cancellationReason |-> "null"],
     [recurringId |-> NULL, scheduledDate |-> day + 1, status |-> "cancelled",
      confirmedAt |-> NULL, startedAt |-> NULL, completedAt |-> NULL,
      cancelledAt |-> day, cancellationReason |-> "given"]}

\* unpaid invoice rows past their due date, drafted or already sent
OpenInvoices(day) ==
    [customer : {"c1"}, total : InvoiceTotals, amountPaid : {0}, amountDue : InvoiceTotals,
     status : {"draft", "sent"}, dueDate : {day - 1}, paidDate : {NULL},
     updatedAt : {day - 1}]

\* the server starts on a database file with bookings and invoices in it
InitMail ==
    /\ today = Jan20_2023
    /\ templates \in [TemplateIds -> TemplateRows(today)]
    /\ \A t \in TemplateIds : ~ templates[t].isActive
    /\ bookings \in [1..NumStored -> StoredBookings(today)]
    /\ gen = GenIdle
    /\ run = NoRun
    /\ invoices \in [1..NumStored -> OpenInvoices(today)]
    /\ payments = <<>>
    /\ totalSpent = [c \in Customers |-> 0]
    /\ sessions = <<>>
    /\ requests = 0
    /\ dueJobs = {}
    /\ mailRuns = <<>>
    /\ communications = {}
    /\ ledger = <<>>

\* the two mail jobs, started by their cron callbacks or by hand
NextMail ==
    \/ ReminderStart
    \/ \E r \in 1..Len(mailRuns) : \E outcome \in SendOutcomes : ReminderAttempt(r, outcome)
    \/ OverdueStart
    \/ \E r \in 1..Len(mailRuns) : \E outcome \in SendOutcomes : NoticeAttempt(r, outcome)

SpecMail == InitMail /\ [][NextMail]_vars

\* the overdue sweep, with invoices being sent between two sweeps of a day
NextSweep ==
    \/ OverdueStart
    \/ \E r \in 1..Len(mailRuns) : \E outcome \in SendOutcomes : NoticeAttempt(r, outcome)
    \/ \E i \in 1..Len(invoices) : SendInvoice(i)

SpecSweep == InitMail /\ [][NextSweep]_vars

\* the scheduler alone on one day: the recurring job and the ticks and
\* callbacks of the other four
InitSched ==
    /\ Init
    /\ today = Jan20_2023

NextSched ==
    \/ CronRecurring
    \/ GenerateIterate
    \/ GenerateFinishTemplate
    \/ \E j \in OtherJobs : Tick(j)
    \/ \E j \in OtherJobs : RunJob(j)

SpecSched == InitSched /\ [][NextSched]_vars

\* invoices and part payments with the arithmetic of the routes
NextMoney ==
    \/ \E c \in PriceCents : CreatePricedInvoice(c)
    \/ \E i \in 1..Len(ledger) : \E c \in InstalmentCents : RecordInstalment(i, c)

SpecMoney == InitBooking /\ [][NextMoney]_vars

-----------------------------------------------------------------------------
\* Recurring generation: properties.

\* C4: a generation run that completes right after another completed run,
\* with the clock on the same day, creates no booking.
C4_SecondRunCreatesNothing ==
    (run.status = "completed" /\ run.repeat) => run.created = 0

\* a second run in a row has completed, after a first one that created
\* bookings and with a template that both runs selected
C4_Witness ==
    /\ run.status = "completed" /\ run.repeat
    /\ Len(bookings) >= 2
    /\ run.selected # {}

ClampedNextMonth(n) ==
    LET y == Year(n)
        m == Month(n)
        ty == IF m = 12 THEN y + 1 ELSE y
        tm == IF m = 12 THEN 1 ELSE m + 1
        d == DayOfMonth(n)
    IN  DayNumber(ty, tm, IF d > DaysInMonth(ty, tm) THEN DaysInMonth(ty, tm) ELSE d)

\* C7: advancing a monthly occurrence keeps the day of month where the
\* target month has it and otherwise clamps to the last day of that month.
C7_MonthlyClamp ==
    [][(/\ gen.pc = "loop" /\ gen'.pc = "loop"
        /\ gen'.queue = gen.queue
        /\ templates[Head(gen.queue)].frequency = "monthly"
        /\ gen'.cursor # gen.cursor)
       => gen'.cursor = ClampedNextMonth(gen.cursor)]_vars

C7_Witness ==
    /\ gen.pc = "loop"
    /\ templates[Head(gen.queue)].frequency = "monthly"
    /\ DayOfMonth(run.start[Head(gen.queue)]) = 31
    /\ Month(gen.cursor) = 3

RECURSIVE Occurrences(_, _, _)
Occurrences(d, frequency, end) ==
    IF d > end THEN {}
    ELSE {d} \cup Occurrences(AdvanceOccurrence(d, frequency), frequency, end)

\* C9: when a run in which a template failed has completed, every other
\* selected template has its next_date past the horizon and a booking on
\* each of its occurrences up to the horizon.
C9_FailureIsolated ==
    (run.status = "completed" /\ run.failed # {}) =>
        \A t \in run.selected \ run.failed :
            /\ templates[t].nextDate > run.day + HorizonDays
            /\ \A d \in Occurrences(run.start[t], templates[t].frequency,
                                     run.day + HorizonDays) :
                    BookingExists(bookings, t, d)

\* a run has completed in which a template failed and a template processed
\* after it got a booking created
C9_Witness ==
    /\ run.status = "completed"
    /\ run.created > 0
    /\ \E f \in run.failed : \E t \in run.selected \ run.failed :
          f < t /\ BookingExists(bookings, t, run.start[t])

\* C12: a template's nextDate never decreases, and, no run being under way,
\* whenever nextDate is not null no booking of the template has a scheduled
\* date on or after it.
C12_NextDateFrontier ==
    /\ [][\A t \in TemplateIds :
           templates[t].nextDate # NULL
             => (templates'[t].nextDate # NULL
                 /\ templates'[t].nextDate >= templates[t].nextDate)]_vars
    /\ [](gen.pc = "idle"
           => \A t \in TemplateIds :
                (templates[t].parses /\ templates[t].nextDate # NULL)
                  => \A i \in 1..Len(bookings) :
                       bookings[i].recurringId = t
                         => bookings[i].scheduledDate < templates[t].nextDate)

C12_Witness ==
    /\ gen.pc = "idle"
    /\ run.status = "crashed"
    /\ \E t \in TemplateIds :
         /\ templates[t].frequency = "weekly"
         /\ templates[t].parses /\ templates[t].nextDate # NULL
         /\ BookingExists(bookings, t, templates[t].nextDate)

\* C17: a run creates no booking dated after today + HorizonDays, and for
\* one template it creates no more bookings than occurrences fit in one
\* horizon window, however far in the past the template's nextDate lies.
C17_RunBoundedByHorizon ==
    /\ [][(Len(bookings') = Len(bookings) + 1
            /\ bookings'[Len(bookings')].recurringId # NULL)
           => bookings'[Len(bookings')].scheduledDate <= today + HorizonDays]_vars
    /\ [](\A t \in run.selected :
            templates[t].frequency \in {"weekly", "biweekly", "monthly"}
              => run.made[t]
                   <= Cardinality(Occurrences(run.day, templates[t].frequency,
                                              run.day + HorizonDays)))

C17_Witness ==
    /\ run.status = "completed"
    /\ \E t \in run.selected :
         /\ templates[t].frequency = "weekly"
         /\ run.start[t] < run.day
         /\ run.made[t] = 4
         /\ \E i \in 1..Len(bookings) :
              bookings[i].recurringId = t /\ bookings[i].scheduledDate < run.day

\* the case labels of the frequency switch
KnownFrequencies == {"weekly", "biweekly", "monthly"}

\* C16: a template whose frequency is not weekly, biweekly or monthly is
\* skipped by the run: no booking is ever created for it, and the run leaves
\* it for the remaining templates instead of staying on it.
C16_UnknownFrequencySkipped ==
    /\ [](\A i \in 1..Len(bookings) :
            bookings[i].recurringId # NULL
              => templates[bookings[i].recurringId].frequency \in KnownFrequencies)
    /\ [][(gen.pc = "loop" /\ templates[Head(gen.queue)].frequency \notin KnownFrequencies)
            => gen'.queue # gen.queue]_vars

C16_Witness ==
    /\ gen.pc = "loop"
    /\ templates[Head(gen.queue)].frequency \notin KnownFrequencies
    /\ BookingExists(bookings, Head(gen.queue), gen.cursor)
    /\ Len(gen.queue) > 1

-----------------------------------------------------------------------------
\* Bookings: properties (checked under SpecBooking)

\* C10: an update that would move a completed booking back to pending is
\* rejected, so no step takes a booking from completed to pending.
C10_CompletedNeverPending ==
    [][\A i \in 1..Len(bookings) :
         bookings[i].status = "completed" => bookings'[i].status # "pending"]_vars

C10_Witness ==
    \E i \in 1..Len(bookings) :
      bookings[i].status = "pending" /\ bookings[i].completedAt # NULL

\* C14: a lifecycle timestamp of a booking (confirmed_at, started_at,
\* completed_at, cancelled_at), once set, is never overwritten by a later
\* update.
C14_TimestampsSetOnce ==
    [][\A i \in 1..Len(bookings) :
         /\ bookings[i].confirmedAt # NULL => bookings'[i].confirmedAt = bookings[i].confirmedAt
         /\ bookings[i].startedAt # NULL => bookings'[i].startedAt = bookings[i].startedAt
         /\ bookings[i].completedAt # NULL => bookings'[i].completedAt = bookings[i].completedAt
         /\ bookings[i].cancelledAt # NULL => bookings'[i].cancelledAt = bookings[i].cancelledAt]_vars

C14_Witness ==
    \E i \in 1..Len(bookings) :
      /\ bookings[i].status = "cancelled"
      /\ bookings[i].cancelledAt = today
      /\ today # Jan20_2023
      /\ requests >= 2

\* C15: no booking has status cancelled without a cancellation reason.
C15_CancelledHasReason ==
    \A i \in 1..Len(bookings) :
      bookings[i].status = "cancelled" => bookings[i].cancellationReason = "given"

C15_Witness ==
    \E i \in 1..Len(bookings) :
      /\ bookings[i].status = "cancelled"
      /\ bookings[i].cancelledAt # NULL
      /\ bookings[i].cancellationReason = "null"

-----------------------------------------------------------------------------
\* Invoices and payments: properties (checked under SpecPay)

\* C1: for every invoice, in every reachable state, amountPaid + amountDue
\* equals total and amountDue is not negative.
C1_BalanceInvariant ==
    \A i \in 1..Len(invoices) :
      /\ invoices[i].amountPaid + invoices[i].amountDue = invoices[i].total
      /\ invoices[i].amountDue >= 0

C1_Witness ==
    \E i \in 1..Len(invoices) :
      /\ invoices[i].amountPaid + invoices[i].amountDue > invoices[i].total
      /\ \E k \in 1..Len(payments) : payments[k].invoice = i

\* C2: a payment is recorded only when 0 < amount <= amountDue: every step
\* that adds a manual Payment row adds one whose amount is positive and no
\* more than the amountDue the invoice had before the step.
C2_OnlyValidAmountsRecorded ==
    [][(Len(payments') = Len(payments) + 1 /\ payments'[Len(payments')].method = "cash")
        => LET p == payments'[Len(payments')]
           IN  p.amount > 0 /\ p.amount <= invoices[p.invoice].amountDue]_vars

C2_Witness ==
    \E k \in 1..Len(payments) :
      /\ payments[k].method = "cash"
      /\ payments[k].amount <= 0
      /\ invoices[payments[k].invoice].paidDate # NULL
      /\ totalSpent[payments[k].customer] < 0

\* C3: however often the processor delivers a checkout-completed event,
\* there is at most one Payment row for a processor reference.
C3_OnePaymentPerReference ==
    \A j, k \in 1..Len(payments) :
      (j # k /\ payments[j].stripePaymentId # NULL)
        => payments[j].stripePaymentId # payments[k].stripePaymentId

C3_Witness ==
    \E j, k \in 1..Len(payments) :
      /\ j < k
      /\ payments[j].stripePaymentId # NULL
      /\ payments[j].stripePaymentId = payments[k].stripePaymentId
      /\ invoices[payments[j].invoice].status = "paid"

RECURSIVE SumCompleted(_, _, _)
\* the sum of the amounts of the completed payments of invoice i among the
\* first n payment rows
SumCompleted(pays, i, n) ==
    IF n = 0 THEN 0
    ELSE SumCompleted(pays, i, n - 1)
         + (IF pays[n].invoice = i /\ pays[n].status = "completed"
            THEN pays[n].amount ELSE 0)

\* C6: for every invoice, in every reachable state, the completed payments
\* of the invoice sum to no more than the invoice's total.
C6_PaymentsWithinTotal ==
    \A i \in 1..Len(invoices) :
      SumCompleted(payments, i, Len(payments)) <= invoices[i].total

C6_Witness ==
    \E i \in 1..Len(invoices) :
      /\ SumCompleted(payments, i, Len(payments)) > invoices[i].total
      /\ \E k \in 1..Len(payments) : payments[k].invoice = i /\ payments[k].method = "card"

\* C8: the overdue sweep sets status overdue on exactly the invoices that are
\* sent, past their due date and still owed; every other invoice keeps its
\* status.
C8_SweepExactlyOverdue ==
    [][CheckOverdueInvoices
        => \A i \in 1..Len(invoices) :
             invoices'[i].status =
               IF /\ invoices[i].status = "sent"
                  /\ invoices[i].dueDate < today
                  /\ invoices[i].amountDue > 0
               THEN "overdue" ELSE invoices[i].status]_vars

C8_Witness ==
    \E i \in 1..Len(invoices) :
      invoices[i].status = "overdue" /\ invoices[i].dueDate < today /\ invoices[i].amountDue > 0

\* C11: payment applications against one invoice are serialized: each one is
\* computed from the balance the previous application wrote, so no two
\* payments of an invoice are computed from the same reading of its balance.
C11_EachApplicationReadsPrevious ==
    \A k \in 1..Len(payments) :
      payments[k].basis
        = Cardinality({j \in 1..(k - 1) : payments[j].invoice = payments[k].invoice})

C11_Witness ==
    \E j, k \in 1..Len(payments) :
      /\ j < k
      /\ payments[j].invoice = payments[k].invoice
      /\ payments[j].method = "cash" /\ payments[j].amount > 0
      /\ payments[k].method = "card"
      /\ payments[k].basis = payments[j].basis

RECURSIVE SumOfCustomer(_, _, _)
\* the sum of the amounts of customer c's payments among the first n rows
SumOfCustomer(pays, c, n) ==
    IF n = 0 THEN 0
    ELSE SumOfCustomer(pays, c, n - 1)
         + (IF pays[n].customer = c THEN pays[n].amount ELSE 0)

\* C13: in every reachable state a customer's lifetime spend equals the sum
\* of the amounts of that customer's Payment rows, for manual payments and
\* for processor-confirmed payments.
C13_LifetimeSpendMatchesPayments ==
    \A c \in Customers : totalSpent[c] = SumOfCustomer(payments, c, Len(payments))

C13_Witness ==
    \E k \in 1..Len(payments) :
      /\ payments[k].method = "card"
      /\ Len(payments) = 1
      /\ totalSpent[payments[k].customer] = 0

\* C18: after a payment application the invoice's status is paid if the new
\* amountDue is 0, partial if 0 < amountPaid < total, and otherwise what it
\* was before.
C18_StatusDerivation ==
    [][Len(payments') = Len(payments) + 1
        => LET i == payments'[Len(payments')].invoice
               old == invoices[i]
               new == invoices'[i]
           IN  new.status = IF new.amountDue = 0 THEN "paid"
                            ELSE IF 0 < new.amountPaid /\ new.amountPaid < new.total
                                 THEN "partial"
                                 ELSE old.status]_vars

C18_Witness ==
    \E i \in 1..Len(invoices) :
      /\ invoices[i].status = "partial"
      /\ invoices[i].amountPaid <= 0
      /\ ApplicationsTo(payments, i) = 1

\* C20: a processor confirmation records a Payment whose amount is the
\* invoice's remaining amountDue at the moment of confirmation, and sets
\* amountPaid = total, amountDue = 0 and status = paid.
C20_ConfirmationPaysRemainder ==
    [][(Len(payments') = Len(payments) + 1 /\ payments'[Len(payments')].method = "card")
        => LET p == payments'[Len(payments')]
               i == p.invoice
           IN  /\ p.amount = invoices[i].amountDue
               /\ invoices'[i].amountPaid = invoices'[i].total
               /\ invoices'[i].amountDue = 0
               /\ invoices'[i].status = "paid"]_vars

C20_Witness ==
    /\ Len(payments) = 2
    /\ payments[1].method = "cash" /\ payments[1].amount = 1
    /\ payments[2].method = "card" /\ payments[2].amount = 2
    /\ payments[2].invoice = payments[1].invoice
    /\ invoices[payments[2].invoice].amountPaid = invoices[payments[2].invoice].total
    /\ invoices[payments[2].invoice].status = "paid"

-----------------------------------------------------------------------------
\* Invoices in a terminal state: properties (checked under SpecStored)

-----------------------------------------------------------------------------
\* Scheduler: properties.

\* the generation in flight can take a step that changes the state
GenerationProgresses == ENABLED <<GenerateIterate \/ GenerateFinishTemplate>>_vars

\* C21: a job that does not complete never keeps another job from firing:
\* whenever the callback of a job is due, either it can be called now or the
\* generation that holds the process is making progress towards its return
C21_DueJobsFire ==
    \A j \in dueJobs : ENABLED RunJob(j) \/ GenerationProgresses

\* a tick of another job has come while a generation run is in its loop
C21_Witness == dueJobs # {} /\ gen.pc = "loop"

-----------------------------------------------------------------------------
\* Mail jobs: properties.

\* C22: two runs of the same job are never in flight at once (a tick or a
\* manual trigger that comes while the previous run is unfinished is skipped)
C22_OneRunInFlight ==
    \A a, b \in 1..Len(mailRuns) :
        (a # b /\ InFlight(mailRuns[a]) /\ InFlight(mailRuns[b]))
            => mailRuns[a].job # mailRuns[b].job

\* the job is called again while a run of it awaits the mailer
C22_Witness ==
    \E a \in 1..Len(mailRuns) :
        /\ InFlight(mailRuns[a])
        /\ mailRuns[a].job = "reminders"
        /\ ENABLED ReminderStart

\* C23: in the reminder loop and in the overdue-notice loop a failed email
\* for one row does not abort the loop: the rows of the query are handled
\* one after the other, and a run is over only when the send for every row
\* it selected has been tried
C23_FailedSendDoesNotAbort ==
    \A r \in 1..Len(mailRuns) :
        /\ mailRuns[r].tried \cup SeqToSet(mailRuns[r].queue) = SeqToSet(mailRuns[r].selected)
        /\ mailRuns[r].pc = "done" <=> mailRuns[r].queue = <<>>

\* a reminder run is over whose first send was rejected (nothing was logged
\* for that booking) and whose later booking was still mailed and logged
C23_Witness ==
    \E r \in 1..Len(mailRuns) :
        /\ mailRuns[r].job = "reminders"
        /\ mailRuns[r].pc = "done"
        /\ Len(mailRuns[r].selected) >= 2
        /\ ~ \E c \in communications : c.run = r /\ c.booking = mailRuns[r].selected[1]
        /\ \E c \in communications : c.run = r /\ c.booking = mailRuns[r].selected[2]

\* C28: the reminder sweep writes a communications entry with status sent
\* only when the sender reported the mail as sent
C28_SentMeansSent ==
    \A c \in communications : c.status = "sent" => c.outcome = "sent"

\* the sender has resolved with sent: false in a reminder run
C28_Witness ==
    \E c \in communications : c.outcome = "notSent"

\* C27: the overdue sweep sends its notices to exactly the invoices it moved
\* to overdue in that run; an invoice that was overdue already (moved by an
\* earlier sweep of the same day) gets no second notice
C27_NoticesOnlyForMoved ==
    \A r \in 1..Len(mailRuns) :
        mailRuns[r].job = "overdue" => SeqToSet(mailRuns[r].selected) = mailRuns[r].moved

\* two sweeps of one day have each moved an invoice
C27_Witness ==
    \E a, b \in 1..Len(mailRuns) :
        /\ a < b
        /\ mailRuns[a].job = "overdue" /\ mailRuns[a].moved # {}
        /\ mailRuns[b].job = "overdue" /\ mailRuns[b].moved # {}

-----------------------------------------------------------------------------
\* Invoices: paid date and paid status (checked under SpecPay).

\* C26: paidDate is set only when a payment moves the invoice into paid: a
\* payment of a valid amount that leaves amountDue > 0 on an invoice without
\* a paidDate leaves it without one
C26_PartialPaymentSetsNoPaidDate ==
    [][(Len(payments') = Len(payments) + 1)
        => LET p == payments'[Len(payments')]
           IN  (/\ p.amount > 0
                /\ p.amount <= invoices[p.invoice].amountDue
                /\ invoices[p.invoice].paidDate = NULL
                /\ invoices'[p.invoice].amountDue > 0)
                  => invoices'[p.invoice].paidDate = NULL]_vars

\* a first payment of part of the total has been recorded
C26_Witness ==
    \E i \in 1..Len(invoices) :
      /\ invoices[i].status = "partial"
      /\ invoices[i].amountDue > 0
      /\ Len(payments) = 1
      /\ payments[1].invoice = i
      /\ payments[1].amount > 0

\* C29: once an invoice is paid, no later operation (send, a further
\* payment, the overdue sweep, a redelivered webhook) gives it a status that
\* is neither paid nor terminal
C29_PaidStaysPaid ==
    [][\A i \in 1..Len(invoices) :
          invoices[i].status = "paid"
            => invoices'[i].status \in {"paid"} \cup TerminalStatuses]_vars

\* an invoice paid in full by two part payments
C29_Witness ==
    \E i \in 1..Len(invoices) :
      /\ invoices[i].status = "paid"
      /\ invoices[i].amountPaid = invoices[i].total
      /\ ApplicationsTo(payments, i) = 2

-----------------------------------------------------------------------------
\* Recurring generation: the occurrence loop and interrupted runs (checked
\* under SpecGen).

\* C30: for every selected template and every stored frequency value the
\* occurrence loop terminates: each iteration moves the cursor strictly
\* forward, until it is past today + HorizonDays
C30_CursorStrictlyIncreases ==
    [][(gen.pc = "loop" /\ gen'.pc = "loop" /\ gen'.queue = gen.queue)
          => gen'.cursor > gen.cursor]_vars

\* the loop has made an iteration for a template whose stored frequency is
\* none of the switch's cases, and its condition still holds
C30_Witness ==
    /\ gen.pc = "loop"
    /\ templates[Head(gen.queue)].frequency \notin KnownFrequencies
    /\ run.made[Head(gen.queue)] = 1
    /\ gen.cursor <= gen.endDate

\* the bookings of template t, from the cursor the run started at, that the
\* run found and did not insert itself: next_date is written past every
\* booking when a template's loop is left, so these are the bookings of a
\* run that was interrupted inside the loop
LeftByInterruptedRun(t) ==
    Cardinality({i \in 1..Len(bookings) :
                    bookings[i].recurringId = t
                      /\ bookings[i].scheduledDate >= run.start[t]}) > run.made[t]

\* C25: when a run was interrupted inside a template's loop (after some
\* inserts, before the template's nextDate was written), the run that
\* follows it ends with the bookings an uninterrupted run makes: each
\* occurrence from the template's cursor up to today + HorizonDays has
\* exactly one booking (none lost, none duplicated) and the template has no
\* other booking from that cursor on
C25_InterruptedRunRepeatable ==
    run.status = "completed" =>
        \A t \in run.selected \ run.failed :
            LeftByInterruptedRun(t) =>
                LET occ == Occurrences(run.start[t], templates[t].frequency,
                                       run.day + HorizonDays)
                    of(d) == {i \in 1..Len(bookings) :
                                bookings[i].recurringId = t
                                  /\ bookings[i].scheduledDate = d}
                IN  /\ \A d \in occ : Cardinality(of(d)) = 1
                    /\ \A i \in 1..Len(bookings) :
                          (bookings[i].recurringId = t
                             /\ bookings[i].scheduledDate >= run.start[t])
                            => bookings[i].scheduledDate \in occ

\* the run after an interrupted one has completed: the interrupted run had
\* inserted some bookings of a template, this run has inserted the others
C25_Witness ==
    /\ run.status = "completed"
    /\ \E t \in run.selected \ run.failed :
          /\ LeftByInterruptedRun(t)
          /\ run.made[t] > 0
          /\ run.made[t] < Cardinality(Occurrences(run.start[t], templates[t].frequency,
                                                   run.day + HorizonDays))

-----------------------------------------------------------------------------
\* Money: properties (checked under SpecMoney).

\* C24: monetary arithmetic is decimal-safe: when the cent values of the
\* part payments of an invoice add up exactly to its total, amountDue is
\* exactly 0 and amountPaid is exactly the total
C24_ExactCentTotals ==
    \A i \in 1..Len(ledger) :
        ledger[i].paidCents = ledger[i].cents
          => /\ ledger[i].amountDue = Zero
             /\ ledger[i].amountPaid = ledger[i].total

\* an invoice has been paid up to its total, to the cent, in several parts
C24_Witness ==
    \E i \in 1..Len(ledger) :
        /\ ledger[i].paidCents = ledger[i].cents
        /\ ledger[i].instalments >= 2

====
